---- MODULE Spec2Model ----
(***************************************************************************)
(* Model of the triage pipeline of mubashir7.py: clean_text, extract_urls, *)
(* get_registered_domain, the lru_cache behind encode_cached and           *)
(* analyze_email.                                                          *)
(*                                                                         *)
(* Texts are TLA+ strings processed character by character, over the       *)
(* characters up to U+00FF.  The strings analyze_email returns are         *)
(* modelled without their leading pictographs.  Similarity scores are      *)
(* binary floating-point numbers: cos_sim normalises and multiplies the    *)
(* integer vectors that stand for the embeddings in single precision, each *)
(* operation rounded, and the fusion works on the result in double         *)
(* precision as Python does.  The whitelist is loaded at start-up from the *)
(* files of the working directory.                                         *)
(* The collaborators (tldextract, the sentence embedding model, cos_sim)   *)
(* are deterministic; the inputs they raise on are fixed by the variable   *)
(* faults for the lifetime of the process.  The capacity of the embedding  *)
(* cache is the bound maxsize.                                             *)
(***************************************************************************)
EXTENDS Integers, Sequences, FiniteSets, TLC

\* ---------------------------------------------------------------- strings
\* The i-th character of s (1-based), as a one-character string.
Ch(s, i) == SubSeq(s, i, i)

\* s[i:] of Python with i 0-based: the characters after the first i.
Drop(s, i) == SubSeq(s, i + 1, Len(s))

\* s[:n] of Python: the first n characters, all of s if it is shorter.
Take(s, n) == SubSeq(s, 1, IF n <= Len(s) THEN n ELSE Len(s))

\* s.startswith(p)
StartsWith(s, p) == Len(s) >= Len(p) /\ SubSeq(s, 1, Len(p)) = p

\* "p in s" of Python on strings: p occurs as a substring of s.
Contains(s, p) == \E i \in 0..(Len(s) - Len(p)) : SubSeq(s, i + 1, i + Len(p)) = p

\* Index (1-based) of the first occurrence of character c in s, 0 if none.
RECURSIVE FindFrom(_, _, _)
FindFrom(s, c, i) ==
  IF i > Len(s) THEN 0
  ELSE IF Ch(s, i) = c THEN i
  ELSE FindFrom(s, c, i + 1)

\* sep.join(seq) of Python.
RECURSIVE Join(_, _)
Join(sep, seq) ==
  IF seq = <<>> THEN ""
  ELSE IF Len(seq) = 1 THEN seq[1]
  ELSE seq[1] \o sep \o Join(sep, Tail(seq))

\* s.split(".") of Python: the labels between the dots.
RECURSIVE SplitDots(_)
SplitDots(s) ==
  LET d == FindFrom(s, ".", 1) IN
  IF d = 0 THEN <<s>>
  ELSE <<SubSeq(s, 1, d - 1)>> \o SplitDots(Drop(s, d))

\* The character classes the regular expressions of the source name.
LowerChars == {"a","b","c","d","e","f","g","h","i","j","k","l","m",
               "n","o","p","q","r","s","t","u","v","w","x","y","z"}
UpperChars == {"A","B","C","D","E","F","G","H","I","J","K","L","M",
               "N","O","P","Q","R","S","T","U","V","W","X","Y","Z"}
DigitChars == {"0","1","2","3","4","5","6","7","8","9"}
\* The whitespace characters below U+0100 that have no escape in a string:
\* U+000B, U+001C to U+001F, U+0085 (next line) and U+00A0 (no-break space).
VT == ""
FS == ""
GS == ""
RS == ""
US == ""
NEL == ""
NBSP == " "

\* \s of the re module on a str pattern, which is also what str.strip()
\* removes: the characters str.isspace() holds of.
SpaceChars == {" ", "\t", "\n", VT, "\f", "\r", FS, GS, RS, US, NEL, NBSP}

\* The cased letters below U+0100: the upper case ones and, at the same
\* positions, their lower case.
UpperLetters == "ABCDEFGHIJKLMNOPQRSTUVWXYZÀÁÂÃÄÅÆÇÈÉÊËÌÍÎÏÐÑÒÓÔÕÖØÙÚÛÜÝÞ"
LowerLetters == "abcdefghijklmnopqrstuvwxyzàáâãäåæçèéêëìíîïðñòóôõöøùúûüýþ"

\* str.lower() on one character.
LowerOf(c) ==
  LET I == {i \in 1..Len(UpperLetters) : Ch(UpperLetters, i) = c}
  IN  IF I = {} THEN c ELSE Ch(LowerLetters, CHOOSE i \in I : TRUE)

\* str.lower()
RECURSIVE Lower(_)
Lower(s) == IF s = "" THEN "" ELSE LowerOf(Ch(s, 1)) \o Lower(Drop(s, 1))

\* str.lstrip() / str.rstrip() / str.strip() with no argument.
RECURSIVE LStrip(_)
LStrip(s) == IF s # "" /\ Ch(s, 1) \in SpaceChars THEN LStrip(Drop(s, 1)) ELSE s
RECURSIVE RStripSet(_, _)
RStripSet(s, cs) ==
  IF s # "" /\ Ch(s, Len(s)) \in cs THEN RStripSet(SubSeq(s, 1, Len(s) - 1), cs) ELSE s
Strip(s) == RStripSet(LStrip(s), SpaceChars)

\* ------------------------------------------------------------ clean_text
\* re.sub(r'<.*?>', '', text): from the left, a '<' together with the
\* shortest run up to the next '>' on the same line is removed ('.' does
\* not match a newline); a '<' with no such '>' is kept.
RECURSIVE StripTags(_)
StripTags(s) ==
  IF s = "" THEN ""
  ELSE IF Ch(s, 1) # "<" THEN Ch(s, 1) \o StripTags(Drop(s, 1))
  ELSE LET gt == FindFrom(s, ">", 2)
           nl == FindFrom(s, "\n", 2)
       IN  IF gt # 0 /\ (nl = 0 \/ gt < nl)
           THEN StripTags(Drop(s, gt))
           ELSE "<" \o StripTags(Drop(s, 1))

\* The characters r'[^a-zA-Z0-9\s:/._-]' leaves in place.
AllowedChars == LowerChars \cup UpperChars \cup DigitChars \cup SpaceChars
                \cup {":", "/", ".", "_", "-"}

\* re.sub(r'[^a-zA-Z0-9\s:/._-]', '', text)
RECURSIVE StripDisallowed(_)
StripDisallowed(s) ==
  IF s = "" THEN ""
  ELSE (IF Ch(s, 1) \in AllowedChars THEN Ch(s, 1) ELSE "")
       \o StripDisallowed(Drop(s, 1))

\* Mutation of clean_text: the final strip() is lost.
clean_text_no_strip(email) ==
  IF email.type # "str" THEN ""
  ELSE Lower(StripDisallowed(StripTags(email.value)))

\* An input of analyze_email is a Python value: [type, value] with value
\* the string when type = "str".
clean_text(email) ==
  IF email.type # "str" THEN ""
  ELSE Strip(Lower(StripDisallowed(StripTags(email.value))))

\* ---------------------------------------------------------- extract_urls
\* [^\s<>"']: the characters a URL match may continue with.
UrlChar(c) == c \notin SpaceChars /\ c \notin {"<", ">", "\"", "'"}

\* Length of the longest prefix of s made of URL characters.
RECURSIVE UrlRun(_)
UrlRun(s) == IF s # "" /\ UrlChar(Ch(s, 1)) THEN 1 + UrlRun(Drop(s, 1)) ELSE 0

\* Length of the scheme or www. prefix URL_REGEX accepts at the start of
\* s (re.IGNORECASE), 0 if there is none.
UrlPrefixLen(s) ==
  IF StartsWith(Lower(Take(s, 8)), "https://") THEN 8
  ELSE IF StartsWith(Lower(Take(s, 7)), "http://") THEN 7
  ELSE IF StartsWith(Lower(Take(s, 4)), "www.") THEN 4
  ELSE 0

\* URL_REGEX.findall(text): leftmost, non-overlapping matches of
\* (https?://[^\s<>"']+|www\.[^\s<>"']+).
RECURSIVE FindAllUrls(_)
FindAllUrls(s) ==
  IF s = "" THEN <<>>
  ELSE LET p == UrlPrefixLen(s)
           n == IF p = 0 THEN 0 ELSE UrlRun(Drop(s, p))
       IN  IF n >= 1
           THEN <<SubSeq(s, 1, p + n)>> \o FindAllUrls(Drop(s, p + n))
           ELSE FindAllUrls(Drop(s, 1))

\* The characters u.rstrip('.,;!?)"\'') removes.
TrailingPunct == {".", ",", ";", "!", "?", ")", "\"", "'"}

RECURSIVE MapRStrip(_)
MapRStrip(us) ==
  IF us = <<>> THEN <<>>
  ELSE <<RStripSet(Head(us), TrailingPunct)>> \o MapRStrip(Tail(us))

extract_urls(text) == MapRStrip(FindAllUrls(text))

\* ------------------------------------------------- get_registered_domain
\* The suffixes of the public suffix list the model knows.
PublicSuffixes == {"com", "org", "xyz", "uk", "co.uk"}

\* s.partition(c)[0]: the part of s before the first c, s if there is none.
Before(s, c) ==
  LET i == FindFrom(s, c, 1) IN IF i = 0 THEN s ELSE SubSeq(s, 1, i - 1)

\* s.rpartition(c)[-1]: the part of s after the last c, s if there is none.
RECURSIVE AfterLast(_, _)
AfterLast(s, c) ==
  LET i == FindFrom(s, c, 1) IN IF i = 0 THEN s ELSE AfterLast(Drop(s, i), c)

\* The host tldextract parses: scheme, path, query, fragment, user info
\* and port removed, a trailing dot dropped.
Netloc(url) ==
  LET rest == IF StartsWith(url, "https://") THEN Drop(url, 8)
              ELSE IF StartsWith(url, "http://") THEN Drop(url, 7)
              ELSE IF StartsWith(url, "//") THEN Drop(url, 2)
              ELSE url
      host == Before(AfterLast(Before(Before(Before(rest, "/"), "?"), "#"), "@"), ":")
  IN  RStripSet(Strip(host), {"."})

\* Index of the first label of the longest public suffix of labels, 0 if
\* no suffix of labels is a public suffix.
SuffixIndex(labels) ==
  LET n == Len(labels)
      I == {i \in 1..n : Join(".", SubSeq(labels, i, n)) \in PublicSuffixes}
  IN  IF I = {} THEN 0 ELSE CHOOSE i \in I : \A j \in I : i <= j

\* One number of a dotted IPv4 address: 0 to 255 in at most three digits.
IsIpLabel(l) ==
  /\ Len(l) \in 1..3
  /\ \A k \in 1..Len(l) : Ch(l, k) \in DigitChars
  /\ Len(l) = 3 =>
       \/ Ch(l, 1) \in {"0", "1"}
       \/ Ch(l, 1) = "2" /\ Ch(l, 2) \in {"0", "1", "2", "3", "4"}
       \/ Ch(l, 1) = "2" /\ Ch(l, 2) = "5" /\ Ch(l, 3) \in {"0", "1", "2", "3", "4", "5"}

LooksLikeIp(labels) == Len(labels) = 4 /\ \A k \in 1..4 : IsIpLabel(labels[k])

\* The domain and the public suffix tldextract finds in url: the label
\* before the longest public suffix of the host, and that suffix; with no
\* public suffix the address (of an IPv4 host) or the last label, and an
\* empty suffix.
SuffixSplit(url) ==
  LET labels == SplitDots(Lower(Netloc(url)))
      n      == Len(labels)
      i      == SuffixIndex(labels)
  IN  IF i = 0
      THEN [domain |-> IF LooksLikeIp(labels) THEN Join(".", labels) ELSE labels[n],
            suffix |-> ""]
      ELSE [domain |-> IF i > 1 THEN labels[i - 1] ELSE "",
            suffix |-> Join(".", SubSeq(labels, i, n))]

\* ------------------------------------------------------- binary numerals
\* A natural number as the sequence of its binary digits, most significant
\* first, without leading zeros; <<>> is 0.  The arithmetic works on chunks
\* of ChunkBits digits.
Max(a, b) == IF a >= b THEN a ELSE b
Min(a, b) == IF a <= b THEN a ELSE b

ChunkBits == 15
ChunkBase == 32768

Zeros(n) == [i \in 1..n |-> 0]

TrimLead(b) ==
  LET I == {i \in 1..Len(b) : b[i] = 1}
  IN  IF I = {} THEN <<>> ELSE SubSeq(b, CHOOSE i \in I : \A j \in I : i <= j, Len(b))

PadLeft(b, n) == Zeros(n - Len(b)) \o b

\* The numeral of n, and the number a numeral of at most 31 digits denotes.
RECURSIVE Bits(_)
Bits(n) == IF n = 0 THEN <<>> ELSE Append(Bits(n \div 2), n % 2)

RECURSIVE Pow2(_)
Pow2(n) == IF n = 0 THEN 1 ELSE 2 * Pow2(n - 1)

RECURSIVE ValueOf(_)
ValueOf(b) == IF b = <<>> THEN 0 ELSE 2 * ValueOf(SubSeq(b, 1, Len(b) - 1)) + b[Len(b)]

\* The lowest chunk of a numeral whose length is a multiple of ChunkBits,
\* and the numeral without it.
LowChunk(a) == ValueOf(SubSeq(a, Len(a) - ChunkBits + 1, Len(a)))
HighPart(a) == SubSeq(a, 1, Len(a) - ChunkBits)
Chunk(n) == PadLeft(Bits(n), ChunkBits)

\* The least multiple of ChunkBits that is at least n.
ChunkLen(n) == ((n + ChunkBits - 1) \div ChunkBits) * ChunkBits

\* a + b + c for chunked numerals a, b of one length and a carry c.
RECURSIVE AddChunks(_, _, _)
AddChunks(a, b, c) ==
  IF a = <<>> THEN Bits(c)
  ELSE LET s == LowChunk(a) + LowChunk(b) + c
       IN  AddChunks(HighPart(a), HighPart(b), s \div ChunkBase) \o Chunk(s % ChunkBase)

BitsAdd(a, b) ==
  LET n == ChunkLen(Max(Len(a), Len(b)))
  IN  TrimLead(AddChunks(PadLeft(a, n), PadLeft(b, n), 0))

\* a - b - c for chunked numerals a >= b of one length and a borrow c.
RECURSIVE SubChunks(_, _, _)
SubChunks(a, b, c) ==
  IF a = <<>> THEN <<>>
  ELSE LET d == LowChunk(a) - LowChunk(b) - c
       IN  SubChunks(HighPart(a), HighPart(b), IF d < 0 THEN 1 ELSE 0)
           \o Chunk(IF d < 0 THEN d + ChunkBase ELSE d)

BitsSub(a, b) ==
  LET n == ChunkLen(Max(Len(a), Len(b)))
  IN  TrimLead(SubChunks(PadLeft(a, n), PadLeft(b, n), 0))

\* a * k + c for a chunked numeral a and numbers k, c below ChunkBase.
RECURSIVE MulChunks(_, _, _)
MulChunks(a, k, c) ==
  IF a = <<>> THEN Bits(c)
  ELSE LET s == LowChunk(a) * k + c
       IN  MulChunks(HighPart(a), k, s \div ChunkBase) \o Chunk(s % ChunkBase)

BitsTimes(a, k) == TrimLead(MulChunks(PadLeft(a, ChunkLen(Len(a))), k, 0))

\* a * b for a numeral b of at most 2 * ChunkBits digits.
BitsMul(a, b) ==
  LET y == PadLeft(b, 2 * ChunkBits)
  IN  BitsAdd(BitsTimes(a, ValueOf(HighPart(y))) \o Zeros(ChunkBits),
              BitsTimes(a, LowChunk(y)))

\* -1, 0 or 1 as the numeral a is below, equal to or above b.
BitsCmp(a, b) ==
  LET n == Max(Len(a), Len(b))
      x == PadLeft(a, n)
      y == PadLeft(b, n)
      D == {i \in 1..n : x[i] # y[i]}
      d == CHOOSE i \in D : \A j \in D : i <= j
  IN  IF D = {} THEN 0 ELSE IF x[d] > y[d] THEN 1 ELSE -1

\* ------------------------------------------------ floating-point numbers
\* A binary floating-point number (a Python float is an IEEE 754 double, an
\* element of an embedding tensor a single): [neg, bits, exp] stands for
\* (-1)^neg * bits * 2^exp, bits a numeral with neither leading nor
\* trailing zeros; zero has no bits and the exponent 0.
Float(neg, b, e) ==
  LET I == {i \in 1..Len(b) : b[i] = 1}
      lo == CHOOSE i \in I : \A j \in I : i <= j
      hi == CHOOSE i \in I : \A j \in I : i >= j
  IN  IF I = {} THEN [neg |-> neg, bits |-> <<>>, exp |-> 0]
      ELSE [neg |-> neg, bits |-> SubSeq(b, lo, hi), exp |-> e + Len(b) - hi]

DoublePrecision == 53
SinglePrecision == 24

\* The float of prec significant digits nearest to (-1)^neg * b * 2^e, ties
\* to even; inexact says that the number has further digits below those of
\* b.
Round(neg, b, e, inexact, prec) ==
  LET t == TrimLead(b) IN
  IF Len(t) <= prec THEN Float(neg, t, e)
  ELSE LET keep   == SubSeq(t, 1, prec)
           sticky == inexact \/ \E i \in (prec + 2)..Len(t) : t[i] = 1
           up     == t[prec + 1] = 1 /\ (sticky \/ keep[prec] = 1)
       IN  Float(neg, IF up THEN BitsAdd(keep, <<1>>) ELSE keep, e + Len(t) - prec)

FZero == [neg |-> FALSE, bits |-> <<>>, exp |-> 0]
FOne == [neg |-> FALSE, bits |-> <<1>>, exp |-> 0]

\* The digits of num / den, a chunk at a time, until there are more than
\* want significant ones or the division ends: [bits, exp, inexact].  q
\* holds the digits found so far, rem < den the remainder.
RECURSIVE Quotient(_, _, _, _, _)
Quotient(q, rem, den, e, want) ==
  IF rem = 0 \/ Len(TrimLead(q)) > want
  THEN [bits |-> q, exp |-> e, inexact |-> rem # 0]
  ELSE Quotient(q \o Chunk((rem * ChunkBase) \div den), (rem * ChunkBase) % den,
                den, e - ChunkBits, want)

\* The double a decimal literal num/den denotes (num >= 0, den > 0).
Literal(num, den) ==
  LET q == Quotient(Bits(num \div den), num % den, den, 0, DoublePrecision)
  IN  Round(FALSE, q.bits, q.exp, q.inexact, DoublePrecision)

\* The magnitudes of f and g as numerals over one exponent.
Aligned(f, g) ==
  LET e == IF f.bits = <<>> THEN g.exp ELSE IF g.bits = <<>> THEN f.exp
           ELSE Min(f.exp, g.exp)
  IN  [a |-> IF f.bits = <<>> THEN <<>> ELSE f.bits \o Zeros(f.exp - e),
       b |-> IF g.bits = <<>> THEN <<>> ELSE g.bits \o Zeros(g.exp - e),
       exp |-> e]

\* -1, 0 or 1 as f < g, f = g or f > g.
FCmp(f, g) ==
  LET al == Aligned(f, g)
      m  == BitsCmp(al.a, al.b)
  IN  IF f.bits = <<>> /\ g.bits = <<>> THEN 0
      ELSE IF f.bits = <<>> THEN (IF g.neg THEN 1 ELSE -1)
      ELSE IF g.bits = <<>> THEN (IF f.neg THEN -1 ELSE 1)
      ELSE IF f.neg # g.neg THEN (IF f.neg THEN -1 ELSE 1)
      ELSE IF f.neg THEN 0 - m ELSE m

FGreater(f, g) == FCmp(f, g) = 1

\* max(a, b) of Python: b only if it is greater than a.
FMax(a, b) == IF FGreater(b, a) THEN b ELSE a

\* f * k in double precision, k a natural number below ChunkBase.
FTimes(f, k) == Round(f.neg, BitsTimes(f.bits, k), f.exp, FALSE, DoublePrecision)

\* 1 - f in double precision.
OneMinus(f) ==
  LET al == Aligned(FOne, f) IN
  IF f.neg THEN Round(FALSE, BitsAdd(al.a, al.b), al.exp, FALSE, DoublePrecision)
  ELSE IF BitsCmp(al.a, al.b) >= 0
  THEN Round(FALSE, BitsSub(al.a, al.b), al.exp, FALSE, DoublePrecision)
  ELSE Round(TRUE, BitsSub(al.b, al.a), al.exp, FALSE, DoublePrecision)

\* The digits of the magnitude of f above the binary point.
WholeBits(f) ==
  IF f.exp >= 0 THEN f.bits \o Zeros(f.exp)
  ELSE SubSeq(f.bits, 1, Max(Len(f.bits) + f.exp, 0))

\* int(f): f truncated towards zero.
FInt(f) == IF f.neg THEN 0 - ValueOf(WholeBits(f)) ELSE ValueOf(WholeBits(f))

\* f"{n}%"
Percent(n) == ToString(n) \o "%"

\* f"{f:.2f}": the magnitude of f rounded to hundredths, ties to even,
\* after the sign of f.
Fmt2(f) ==
  LET h      == [neg |-> f.neg, bits |-> BitsTimes(f.bits, 100), exp |-> f.exp]
      q      == ValueOf(WholeBits(h))
      k      == IF h.exp >= 0 THEN 0 ELSE 0 - h.exp
      frac   == PadLeft(h.bits, Max(Len(h.bits), k))
      n      == Len(frac)
      guard  == IF k = 0 THEN 0 ELSE frac[n - k + 1]
      sticky == \E i \in (n - k + 2)..n : frac[i] = 1
      r      == IF guard = 1 /\ (sticky \/ q % 2 = 1) THEN q + 1 ELSE q
  IN  (IF f.neg THEN "-" ELSE "") \o ToString(r \div 100) \o "."
      \o ToString((r % 100) \div 10) \o ToString(r % 10)

\* f + g rounded to prec digits; an exact zero is positive unless both
\* terms are negative zeros.
FPlus(f, g, prec) ==
  LET al == Aligned(f, g)
      m  == BitsCmp(al.a, al.b)
  IN  IF f.neg = g.neg THEN Round(f.neg, BitsAdd(al.a, al.b), al.exp, FALSE, prec)
      ELSE IF m = 0 THEN FZero
      ELSE IF m > 0 THEN Round(f.neg, BitsSub(al.a, al.b), al.exp, FALSE, prec)
      ELSE Round(g.neg, BitsSub(al.b, al.a), al.exp, FALSE, prec)

\* f * g rounded to prec digits, g of at most 2 * ChunkBits digits.
FProduct(f, g, prec) ==
  Round(f.neg # g.neg, BitsMul(f.bits, g.bits), f.exp + g.exp, FALSE, prec)

\* The digits of num / den found one at a time until the quotient q
\* reaches want or the division ends: [quot, exp, inexact]; rem < den is
\* the remainder.
RECURSIVE Digits(_, _, _, _, _)
Digits(q, rem, den, e, want) ==
  IF rem = 0 \/ q >= want
  THEN [quot |-> q, exp |-> e, inexact |-> rem # 0]
  ELSE Digits(2 * q + (2 * rem) \div den, (2 * rem) % den, den, e - 1, want)

\* x / f rounded to prec digits, for an integer x and a float f > 0 of at
\* most 30 digits.
FQuotient(x, f, prec) ==
  LET den == ValueOf(f.bits)
      num == IF x < 0 THEN 0 - x ELSE x
      d   == Digits(num \div den, num % den, den, 0, Pow2(prec))
  IN  Round(x < 0, Bits(d.quot), d.exp - f.exp, d.inexact, prec)

\* The digits of the square root of num / den (num <= den) found one at a
\* time until the root p reaches want: [root, exp, inexact], the root being
\* floor(sqrt(num / den) * 2^(-exp)).  rem is the remainder of the division
\* and r that of the root extraction.
RECURSIVE Root(_, _, _, _, _, _)
Root(p, r, rem, den, e, want) ==
  IF p >= want \/ (p > 0 /\ r = 0 /\ rem = 0)
  THEN [root |-> p, exp |-> e, inexact |-> r # 0 \/ rem # 0]
  ELSE LET r4 == 4 * r + (4 * rem) \div den
           c  == 4 * p + 1
       IN  IF r4 >= c
           THEN Root(2 * p + 1, r4 - c, (4 * rem) % den, den, e - 1, want)
           ELSE Root(2 * p, r4, (4 * rem) % den, den, e - 1, want)

\* The square root of the natural number n rounded to prec digits.
FSqrt(n, prec) ==
  LET K == {i \in 0..14 : Pow2(2 * i) >= n}
      k == CHOOSE i \in K : \A j \in K : i <= j
      s == Root(n \div Pow2(2 * k), 0, n % Pow2(2 * k), Pow2(2 * k), 0, Pow2(prec))
  IN  Round(FALSE, Bits(s.root), s.exp + k, s.inexact, prec)

\* ---------------------------------------------------------------- inputs
Str(s) == [type |-> "str", value |-> s]

\* The values analyze_email is called with.
Inputs ==
  { [type |-> "NoneType", value |-> ""],
    [type |-> "int", value |-> "42"],
    Str(""),
    Str(" \n" \o VT \o NBSP),
    Str("<p>!?</p> @"),
    Str("visit https://mail.gmail.com/inbox"),
    Str("URGENT: verify your password at https://mail.gmail.com/inbox and www.yahoo.com."),
    Str("click http://evil-bank-login.xyz now to verify your account"),
    Str("URGENT! http://evil-bank-login.xyz"),
    Str("see" \o NBSP \o "http://evil-bank-login.xyz" \o VT \o "now"),
    Str("Reset at http://evil-bank-login.xyz"),
    Str("notes" \o FS \o "http://docs.example.org/a" \o NEL),
    Str("minutes http://docs.example.org/a"),
    Str("agenda http://docs.example.org/a"),
    Str("see www.yahoo.com and http://10.0.0.1/a"),
    Str("<b>Hello</b> team, lunch at noon?"),
    Str("Your PASSWORD is urgent!") }

SUSPICIOUS_KEYWORDS ==
  <<"urgent", "verify", "password", "click", "confirm", "account", "login",
    "security", "reset", "bank", "otp", "update", "alert", "access",
    "limited time", "immediately", "payment", "refund", "locked", "blocked">>

\* [k for k in SUSPICIOUS_KEYWORDS if k in email_text]
KeywordHits(email_text) ==
  LET IsHit(k) == Contains(email_text, k) IN SelectSeq(SUSPICIOUS_KEYWORDS, IsHit)

\* The text functions are pure; their values on the inputs are computed
\* once and looked up by the steps of analyze_email.
TextTable == [email \in Inputs |-> clean_text(email)] @@ <<>>
UrlTable == [email \in Inputs |-> extract_urls(TextTable[email])] @@ <<>>
HitTable == [email \in Inputs |-> KeywordHits(TextTable[email])] @@ <<>>
InputUrls == UNION {{UrlTable[email][i] : i \in 1..Len(UrlTable[email])} : email \in Inputs}
SplitTable == [url \in InputUrls |-> SuffixSplit(url)] @@ <<>>

VARIABLES
  cache,      \* the lru_cache of encode_cached: <<[key, value]>>, least recently used first
  ret,        \* what the last analyze_email call returned
  calls,      \* the texts semantic_model.encode was run on during the last call
  mid,        \* the cache between the two encode_cached lookups of the last call
  evicted,    \* the keys the last call evicted and left out of the cache
  refetched,  \* the keys the last call encoded afresh that the call before had evicted
  stage,      \* where the last call returned: "none", "empty", "safe", "fused", "raised"
  cosine_score, \* cosine_score of the last call
  hits,       \* hits of the last call, <<>> if it returned before line 101
  failed,     \* whether the last call took the except branch of lines 98-99
  faults,     \* the failures of the collaborators, fixed for the process lifetime
  SAFE_DOMAINS, \* the whitelist the import of the module loaded
  safe_file   \* safe_domains.pkl after the import: [exists, content]

vars == <<cache, ret, calls, mid, evicted, refetched, stage, cosine_score, hits, failed,
          faults, SAFE_DOMAINS, safe_file>>

\* ------------------------------------------------------ whitelist loading
\* A file that does not exist, and the cells of the text column of the CSV:
\* a string, or NaN for an empty cell.
NoFile == [exists |-> FALSE, content |-> {}]
Cell(s) == [nan |-> FALSE, value |-> s]
NaN == [nan |-> TRUE, value |-> ""]

\* The working directories the module is imported in: safe_domains.pkl with
\* the set pickled in it, and the CSV with its text column.
Directories ==
  { [safe_file |-> NoFile, csv |-> [exists |-> FALSE, text |-> <<>>]],
    [safe_file |-> [exists |-> TRUE, content |-> {"example.org"}],
     csv |-> [exists |-> FALSE, text |-> <<>>]],
    [safe_file |-> [exists |-> TRUE, content |-> {}],
     csv |-> [exists |-> TRUE, text |-> <<Cell("gmail.com")>>]],
    [safe_file |-> NoFile,
     csv |-> [exists |-> TRUE,
              text |-> <<Cell(" Yahoo.COM "), NaN, Cell("evil-bank-login.xyz"),
                         Cell("yahoo.com")>>]] }

\* df["text"].str.lower().str.strip().dropna().unique() as a set.
CsvDomains(text) ==
  {Strip(Lower(text[i].value)) : i \in {j \in 1..Len(text) : ~text[j].nan}}

\* Lines 23-34: the whitelist and safe_domains.pkl after the import in the
\* directory dir.  The pickle is used when it exists; otherwise the CSV when
\* it exists, and its domains are pickled; otherwise the three defaults.
LoadWhitelist(dir) ==
  IF dir.safe_file.exists
  THEN [SAFE_DOMAINS |-> dir.safe_file.content, safe_file |-> dir.safe_file]
  ELSE IF dir.csv.exists
  THEN [SAFE_DOMAINS |-> CsvDomains(dir.csv.text),
        safe_file |-> [exists |-> TRUE, content |-> CsvDomains(dir.csv.text)]]
  ELSE [SAFE_DOMAINS |-> {"gmail.com", "yahoo.com", "outlook.com"}, safe_file |-> NoFile]

\* tldextract.extract(url): [raised, domain, suffix].
tld_extract(url) ==
  IF url \in faults.extract
  THEN [raised |-> TRUE, domain |-> "", suffix |-> ""]
  ELSE [raised |-> FALSE, domain |-> SplitTable[url].domain,
        suffix |-> SplitTable[url].suffix]

\* get_registered_domain(url): [raised, value]; raised is the exception
\* leaving the function.
get_registered_domain(url) ==
  LET ext == tld_extract(url) IN
  IF ext.raised THEN [raised |-> FALSE, value |-> ""]
  ELSE IF ext.domain # "" /\ ext.suffix # ""
       THEN [raised |-> FALSE, value |-> Lower(ext.domain \o "." \o ext.suffix)]
       ELSE [raised |-> FALSE, value |-> Lower(url)]

\* -------------------------------------------------------- encode_cached
\* Capacity of the cache in the model; lru_cache(maxsize=200) in the source.
maxsize == 2

\* semantic_model.encode on the texts of the model: a fixed table of
\* four-dimensional integer vectors standing for the sentence embeddings.
Embedding(text) ==
  CASE text = "http://evil-bank-login.xyz"                                  -> <<4, 3, 0, 0>>
    [] text = "http://docs.example.org/a"                                   -> <<4, 3, 0, 0>>
    [] text = "click http://evil-bank-login.xyz now to verify your account" -> <<5, 0, 0, 0>>
    [] text = "urgent http://evil-bank-login.xyz"                           -> <<3, 4, 0, 0>>
    [] text = "see" \o NBSP \o "http://evil-bank-login.xyz" \o VT \o "now"   -> <<2, 1, 4, 2>>
    [] text = "reset at http://evil-bank-login.xyz"                         -> <<1, 2, 2, 4>>
    [] text = "notes" \o FS \o "http://docs.example.org/a"                   -> <<1, 1, 0, 0>>
    [] text = "minutes http://docs.example.org/a"                           -> <<0, 5, 0, 0>>
    [] text = "agenda http://docs.example.org/a"                            -> <<0, -5, 0, 0>>
    [] text = "see www.yahoo.com and http://10.0.0.1/a"                     -> <<0, 0, 5, 0>>
    [] text = "www.yahoo.com http://10.0.0.1/a"                             -> <<0, 0, 3, 4>>
    [] text = "hello team lunch at noon"                                    -> <<0, 0, 0, 5>>
    [] text = "your password is urgent"                                     -> <<0, 1, 0, 3>>
    [] OTHER                                                                -> <<5, 0, 0, 0>>

\* semantic_model.encode(text, convert_to_tensor=True): [raised, value].
encode(text) ==
  IF text \in faults.encode
  THEN [raised |-> TRUE, value |-> <<>>]
  ELSE [raised |-> FALSE, value |-> Embedding(text)]

Dot(a, b) == a[1] * b[1] + a[2] * b[2] + a[3] * b[3] + a[4] * b[4]

\* torch.nn.functional.normalize(v, p=2, dim=1) of util.cos_sim: v divided
\* by its Euclidean norm, in single precision.  The squares of the integer
\* elements of the model add up without rounding; a vector without length
\* is divided by eps and stays zero.
normalize(v) ==
  [i \in 1..4 |-> IF Dot(v, v) = 0 THEN FZero
                  ELSE FQuotient(v[i], FSqrt(Dot(v, v), SinglePrecision), SinglePrecision)]

\* util.cos_sim(a, b): torch.mm of the normalized a with the normalized b,
\* the products rounded to single precision and added in the order of the
\* elements, every sum rounded to single precision.
Cosine(a, b) ==
  LET x == normalize(a)
      y == normalize(b)
      P(i) == FProduct(x[i], y[i], SinglePrecision)
  IN  FPlus(FPlus(FPlus(FPlus(FZero, P(1), SinglePrecision), P(2), SinglePrecision),
                  P(3), SinglePrecision), P(4), SinglePrecision)

\* The texts the calls look up, their embeddings, and the cosines of those.
KeyTexts ==
  UNION {{TextTable[email], IF UrlTable[email] # <<>> THEN Join(" ", UrlTable[email])
                            ELSE TextTable[email]} : email \in Inputs}
Vectors == {Embedding(text) : text \in KeyTexts}
CosineTable == [a \in Vectors, b \in Vectors |-> Cosine(a, b)] @@ <<>>

\* float(util.cos_sim(a, b).item()): [raised, value].
cos_sim(a, b) ==
  IF faults.cos
  THEN [raised |-> TRUE, value |-> FZero]
  ELSE [raised |-> FALSE,
        value |-> IF <<a, b>> \in DOMAIN CosineTable THEN CosineTable[a, b]
                  ELSE Cosine(a, b)]

\* Position of key in the cache c, 0 if it is not cached.
CacheIndex(c, key) ==
  IF \E i \in 1..Len(c) : c[i].key = key
  THEN CHOOSE i \in 1..Len(c) : c[i].key = key
  ELSE 0

CacheKeys(c) == {c[i].key : i \in 1..Len(c)}

\* c without its i-th entry.
RemoveAt(c, i) == SubSeq(c, 1, i - 1) \o SubSeq(c, i + 1, Len(c))

\* Mutation of encode_cached: first-in first-out, a hit does not renew the entry.
encode_cached_fifo(c, text) ==
  LET i == CacheIndex(c, text) IN
  IF i # 0
  THEN [raised |-> FALSE, value |-> c[i].value, cache |-> c, calls |-> <<>>, evicted |-> {}]
  ELSE LET r == encode(text) IN
       IF r.raised
       THEN [raised |-> TRUE, value |-> <<>>, cache |-> c,
             calls |-> <<text>>, evicted |-> {}]
       ELSE [raised |-> FALSE, value |-> r.value,
             cache |-> Append(IF Len(c) >= maxsize THEN Tail(c) ELSE c,
                              [key |-> text, value |-> r.value]),
             calls |-> <<text>>,
             evicted |-> IF Len(c) >= maxsize THEN {Head(c).key} ELSE {}]

\* Mutation of encode_cached: a hit returns the most recently stored
\* embedding instead of the one stored under the key.
encode_cached_stale(c, text) ==
  LET i == CacheIndex(c, text) IN
  IF i # 0
  THEN [raised |-> FALSE, value |-> c[Len(c)].value,
        cache |-> Append(RemoveAt(c, i), c[i]), calls |-> <<>>, evicted |-> {}]
  ELSE LET r == encode(text) IN
       IF r.raised
       THEN [raised |-> TRUE, value |-> <<>>, cache |-> c,
             calls |-> <<text>>, evicted |-> {}]
       ELSE [raised |-> FALSE, value |-> r.value,
             cache |-> Append(IF Len(c) >= maxsize THEN Tail(c) ELSE c,
                              [key |-> text, value |-> r.value]),
             calls |-> <<text>>,
             evicted |-> IF Len(c) >= maxsize THEN {Head(c).key} ELSE {}]

\* One call encode_cached(text) on the cache c:
\* [raised, value, cache, calls, evicted].  A hit returns the stored value
\* and makes the entry the most recently used; a miss runs the model, and
\* unless it raises stores the result, evicting the least recently used
\* entry of a full cache.
encode_cached(c, text) ==
  LET i == CacheIndex(c, text) IN
  IF i # 0
  THEN [raised |-> FALSE, value |-> c[i].value,
        cache |-> Append(RemoveAt(c, i), c[i]), calls |-> <<>>, evicted |-> {}]
  ELSE LET r == encode(text) IN
       IF r.raised
       THEN [raised |-> TRUE, value |-> <<>>, cache |-> c,
             calls |-> <<text>>, evicted |-> {}]
       ELSE [raised |-> FALSE, value |-> r.value,
             cache |-> Append(IF Len(c) >= maxsize THEN Tail(c) ELSE c,
                              [key |-> text, value |-> r.value]),
             calls |-> <<text>>,
             evicted |-> IF Len(c) >= maxsize THEN {Head(c).key} ELSE {}]

\* --------------------------------------------------------- analyze_email
\* [get_registered_domain(u) for u in urls], as [raised, value] records.
RECURSIVE ResolveAll(_)
ResolveAll(urls) ==
  IF urls = <<>> THEN <<>>
  ELSE <<get_registered_domain(Head(urls))>> \o ResolveAll(Tail(urls))

\* [d for d in domains if d in SAFE_DOMAINS]
SafeHits(domains) ==
  LET IsSafe(d) == d \in SAFE_DOMAINS IN SelectSeq(domains, IsSafe)

\* [d for d in domains if d not in SAFE_DOMAINS]
NonSafeHits(domains) ==
  LET NotSafe(d) == d \notin SAFE_DOMAINS IN SelectSeq(domains, NotSafe)

\* Mutation of ShortCircuit: the "not" of line 88 is lost.
ShortCircuit_missing_not(urls, safe_hits, non_safe_hits) ==
  urls # <<>> /\ safe_hits # <<>> /\ non_safe_hits # <<>>

\* Mutation of ShortCircuit: the non-whitelisted domains are not looked at.
ShortCircuit_ignores_non_safe(urls, safe_hits, non_safe_hits) ==
  urls # <<>> /\ safe_hits # <<>>

\* The test of lines 86 and 88 under which analyze_email returns at line 89.
ShortCircuit(urls, safe_hits, non_safe_hits) ==
  urls # <<>> /\ safe_hits # <<>> /\ non_safe_hits = <<>>

\* The triple line 78 returns.
EmptyVerdict ==
  [label |-> "No text provided.", confidence |-> "0%",
   explanation |-> "Please paste the email content."]

\* The triple line 89 returns.
SafeVerdict(safe_hits) ==
  [label |-> "Safe Email", confidence |-> "99%",
   explanation |-> "All domains are whitelisted: " \o Join(", ", safe_hits)]

\* explanation_lines after lines 86-93.
UrlLines(urls, non_safe_hits) ==
  IF urls # <<>>
  THEN <<"URLs found: " \o Join(", ", urls)>>
       \o (IF non_safe_hits # <<>>
           THEN <<"Non-whitelisted domains: " \o Join(", ", non_safe_hits)>>
           ELSE <<>>)
  ELSE <<"No URLs detected.">>

\* The thresholds and floors of the fusion: the literals 0.4, 0.6, 0.8 and
\* 0.6 of lines 105-110, in hundredths.
PhishingThreshold == 40
SuspiciousThreshold == 60
PhishingFloor == 80
SuspiciousFloor == 60

\* Mutation of ComparisonText: the URL-less fallback to email_text is lost.
ComparisonText_urls_only(email_text, urls) == Join(" ", urls)

\* ' '.join(urls) if urls else email_text
ComparisonText(email_text, urls) ==
  IF urls # <<>> THEN Join(" ", urls) ELSE email_text

\* The outcome of lines 95-99 once both lookups e1 and e2 have returned
\* and cos_sim has answered cs.
SimilarityOfBoth(e1, e2, cs) ==
  [raised |-> FALSE, score |-> IF cs.raised THEN FZero ELSE cs.value,
   cache |-> e2.cache, mid |-> e1.cache, calls |-> e1.calls \o e2.calls,
   evicted |-> e1.evicted \cup e2.evicted, failed |-> cs.raised]

\* The outcome of lines 95-99 when the lookup e1 or e2 raised: the bare
\* except sets the score to 0.
SimilarityExcept(e1, e2) ==
  [raised |-> FALSE, score |-> FZero, cache |-> e2.cache, mid |-> e1.cache,
   calls |-> IF e1.raised THEN e1.calls ELSE e1.calls \o e2.calls,
   evicted |-> e1.evicted \cup e2.evicted, failed |-> TRUE]

\* Mutation of SimilaritySecond: the try block covers the first lookup
\* only, so a failure of the second lookup leaves the function as an
\* exception.
SimilaritySecond_narrow_try(e1, e2) ==
  IF e2.raised
  THEN [raised |-> TRUE, score |-> FZero, cache |-> e2.cache, mid |-> e1.cache,
        calls |-> e1.calls \o e2.calls, evicted |-> e1.evicted \cup e2.evicted,
        failed |-> FALSE]
  ELSE SimilarityOfBoth(e1, e2, cos_sim(e1.value, e2.value))

\* Line 97 after the second lookup e2 has returned or raised.
SimilaritySecond(e1, e2) ==
  IF e2.raised
  THEN SimilarityExcept(e1, e2)
  ELSE SimilarityOfBoth(e1, e2, cos_sim(e1.value, e2.value))

\* Lines 96-97 after the first lookup e1 has returned or raised.
SimilarityFirst(e1, comparison) ==
  IF e1.raised
  THEN SimilarityExcept(e1, e1)
  ELSE SimilaritySecond(e1, encode_cached(e1.cache, comparison))

\* Lines 95-99: the similarity score with the cache c:
\* [raised, score, cache, mid, calls, evicted, failed].  The bare except
\* catches every exception of the block, so none leaves it.
Similarity(c, email_text, urls) ==
  SimilarityFirst(encode_cached(c, email_text), ComparisonText(email_text, urls))

\* Mutation of Fusion: the thresholds compared with >= instead of >.
Fusion_non_strict(has_hits, score) ==
  IF has_hits /\ FCmp(score, Literal(PhishingThreshold, 100)) >= 0
  THEN [label |-> "Phishing Email",
        confidence |-> Percent(FInt(FTimes(FMax(score, Literal(PhishingFloor, 100)), 100)))]
  ELSE IF has_hits \/ FCmp(score, Literal(SuspiciousThreshold, 100)) >= 0
  THEN [label |-> "Suspicious Email",
        confidence |-> Percent(FInt(FTimes(FMax(score, Literal(SuspiciousFloor, 100)), 100)))]
  ELSE [label |-> "Legitimate Email",
        confidence |-> Percent(FInt(FTimes(OneMinus(score), 100)))]

\* Lines 105-113: the label and the confidence from whether there are
\* keyword hits and the score, in the double-precision arithmetic of Python.
Fusion(has_hits, score) ==
  IF has_hits /\ FGreater(score, Literal(PhishingThreshold, 100))
  THEN [label |-> "Phishing Email",
        confidence |-> Percent(FInt(FTimes(FMax(score, Literal(PhishingFloor, 100)), 100)))]
  ELSE IF has_hits \/ FGreater(score, Literal(SuspiciousThreshold, 100))
  THEN [label |-> "Suspicious Email",
        confidence |-> Percent(FInt(FTimes(FMax(score, Literal(SuspiciousFloor, 100)), 100)))]
  ELSE [label |-> "Legitimate Email",
        confidence |-> Percent(FInt(FTimes(OneMinus(score), 100)))]

\* The scores the calls on the inputs can have, with their verdicts and
\* their two-decimal texts.
Scores == {CosineTable[p] : p \in DOMAIN CosineTable} \cup {FZero}
FusionTable == [h \in BOOLEAN, s \in Scores |-> Fusion(h, s)] @@ <<>>
Fmt2Table == [s \in Scores |-> Fmt2(s)] @@ <<>>

\* Lines 101-103 and 115: the lines the fusion adds to the explanation,
\* text being the score to two decimals.
FusionLines(found, text) ==
  (IF found # <<>> THEN <<"Suspicious keywords: " \o Join(", ", found)>> ELSE <<>>)
  \o <<"Semantic similarity score: " \o text>>

\* The outcome of a call that does not reach lines 95-99.
Early(stg, v, c) ==
  [stage |-> stg, raised |-> stg = "raised", label |-> v.label,
   confidence |-> v.confidence, explanation |-> v.explanation,
   cache |-> c, mid |-> c, calls |-> <<>>, evicted |-> {}, score |-> FZero, hits |-> <<>>,
   failed |-> FALSE]

\* Lines 101-116 with the similarity outcome sim: the returned triple.
Fused(lines, found, sim) ==
  [stage |-> IF sim.raised THEN "raised" ELSE "fused", raised |-> sim.raised,
   label |-> IF sim.raised THEN "" ELSE FusionTable[found # <<>>, sim.score].label,
   confidence |-> IF sim.raised THEN "" ELSE FusionTable[found # <<>>, sim.score].confidence,
   explanation |-> IF sim.raised THEN ""
                   ELSE Join("\n", lines \o FusionLines(found, Fmt2Table[sim.score])),
   cache |-> sim.cache, mid |-> sim.mid, calls |-> sim.calls, evicted |-> sim.evicted,
   score |-> sim.score, hits |-> IF sim.raised THEN <<>> ELSE found, failed |-> sim.failed]

\* Lines 83-116 with the resolved domains.
Decide(email_text, urls, found, resolved, domains, c) ==
  IF \E i \in 1..Len(resolved) : resolved[i].raised
  THEN Early("raised", [label |-> "", confidence |-> "", explanation |-> ""], c)
  ELSE IF ShortCircuit(urls, SafeHits(domains), NonSafeHits(domains))
  THEN Early("safe", SafeVerdict(SafeHits(domains)), c)
  ELSE Fused(UrlLines(urls, NonSafeHits(domains)), found, Similarity(c, email_text, urls))

\* The values of [raised, value] records.
Values(resolved) == [i \in 1..Len(resolved) |-> resolved[i].value]

\* Lines 81-116 with the URLs of the text.
Resolve(email_text, urls, found, resolved, c) ==
  Decide(email_text, urls, found, resolved, Values(resolved), c)

\* analyze_email(email) with the cache c: the returned triple, whether an
\* exception left the function, and the effect on the cache.
analyze(email, c) ==
  IF TextTable[email] = ""
  THEN Early("empty", EmptyVerdict, c)
  ELSE Resolve(TextTable[email], UrlTable[email], HitTable[email],
               ResolveAll(UrlTable[email]), c)

\* The failures the collaborators can show, each fixed for the lifetime of
\* the process: the URLs tldextract raises on, the texts the embedding
\* model raises on, and whether cos_sim raises.
FaultScenarios ==
  { [extract |-> {}, encode |-> {}, cos |-> FALSE],
    [extract |-> {"http://evil-bank-login.xyz"}, encode |-> {}, cos |-> FALSE],
    [extract |-> {}, encode |-> {"http://evil-bank-login.xyz"}, cos |-> FALSE],
    [extract |-> {},
     encode |-> {"click http://evil-bank-login.xyz now to verify your account",
                 "hello team lunch at noon", "your password is urgent"},
     cos |-> FALSE],
    [extract |-> {}, encode |-> {}, cos |-> TRUE] }

\* ----------------------------------------------------------------- system
NoReturn == [email |-> [type |-> "NoneType", value |-> ""], raised |-> FALSE,
             label |-> "", confidence |-> "", explanation |-> ""]

Init ==
  /\ cache = <<>>
  /\ ret = NoReturn
  /\ calls = <<>>
  /\ mid = <<>>
  /\ evicted = {}
  /\ refetched = {}
  /\ stage = "none"
  /\ cosine_score = FZero
  /\ hits = <<>>
  /\ failed = FALSE
  /\ faults \in FaultScenarios
  /\ \E dir \in Directories :
       /\ SAFE_DOMAINS = LoadWhitelist(dir).SAFE_DOMAINS
       /\ safe_file = LoadWhitelist(dir).safe_file

\* One call analyze_email(email).
AnalyzeEmail(email) ==
  \E r \in {analyze(email, cache)} :
  /\ cache' = r.cache
  /\ ret' = [email |-> email, raised |-> r.raised, label |-> r.label,
             confidence |-> r.confidence, explanation |-> r.explanation]
  /\ calls' = r.calls
  /\ mid' = r.mid
  /\ evicted' = r.evicted \ CacheKeys(r.cache)
  /\ refetched' = {k \in evicted : \E i \in 1..Len(r.calls) : r.calls[i] = k}
  /\ stage' = r.stage
  /\ cosine_score' = r.score
  /\ hits' = r.hits
  /\ failed' = r.failed
  /\ UNCHANGED <<faults, SAFE_DOMAINS, safe_file>>

Next == \E email \in Inputs : AnalyzeEmail(email)

Spec == Init /\ [][Next]_vars

\* ------------------------------------------------------ the fusion alone
\* Lines 101-116 on their own: the keyword hits and the score are drawn
\* from FusionHits and FusionScores, which hold the doubles 0.4 and 0.6
\* themselves besides their single-precision neighbours.
Opposite(f) == [neg |-> ~f.neg, bits |-> f.bits, exp |-> f.exp]

FusionScores ==
  {Literal(k, 100) : k \in {0, 20, 39, 40, 41, 56, 59, 60, 61, 79, 80, 81, 100}}
  \cup {Opposite(Literal(k, 100)) : k \in {13, 60, 100}}
  \cup {Cosine(<<5, 0, 0, 0>>, v) : v \in {<<2, 1, 4, 2>>, <<3, 4, 0, 0>>, <<1, 1, 0, 0>>,
                                          <<4, 3, 0, 0>>, <<-3, 4, 0, 0>>}}

FusionHits == {<<>>, <<"urgent">>, <<"verify", "account">>}

FusionInit ==
  /\ cache = <<>>
  /\ ret = NoReturn
  /\ calls = <<>>
  /\ mid = <<>>
  /\ evicted = {}
  /\ refetched = {}
  /\ stage = "none"
  /\ cosine_score \in FusionScores
  /\ hits \in FusionHits
  /\ failed = FALSE
  /\ faults = [extract |-> {}, encode |-> {}, cos |-> FALSE]
  /\ SAFE_DOMAINS = {"gmail.com", "yahoo.com", "outlook.com"}
  /\ safe_file = NoFile

\* Lines 101-116 after a text without URL: the verdict of the fusion.
FuseSignals ==
  /\ stage = "none"
  /\ stage' = "fused"
  /\ ret' = [email |-> NoReturn.email, raised |-> FALSE,
             label |-> Fusion(hits # <<>>, cosine_score).label,
             confidence |-> Fusion(hits # <<>>, cosine_score).confidence,
             explanation |-> Join("\n", <<"No URLs detected.">>
                                        \o FusionLines(hits, Fmt2(cosine_score)))]
  /\ UNCHANGED <<cache, calls, mid, evicted, refetched, cosine_score, hits, failed,
                 faults, SAFE_DOMAINS, safe_file>>

FusionNext == FuseSignals

FusionSpec == FusionInit /\ [][FusionNext]_vars

\* ------------------------------------------------------------ properties
\* The last call: its normalized text, URLs, resolved domains, keyword
\* hits and the two texts it looks up in the cache.
Called == stage # "none"
LastText == TextTable[ret.email]
LastUrls == UrlTable[ret.email]
LastHits == HitTable[ret.email]
LastDomains == [i \in 1..Len(LastUrls) |-> get_registered_domain(LastUrls[i]).value]
LastKey1 == LastText
LastKey2 == IF LastUrls # <<>> THEN Join(" ", LastUrls) ELSE LastText

EndsWith(s, suffix) ==
  Len(s) >= Len(suffix) /\ SubSeq(s, Len(s) - Len(suffix) + 1, Len(s)) = suffix

FusionLabels == {"Phishing Email", "Suspicious Email", "Legitimate Email"}

\* C1: when the normalized text has at least one URL and every resolved
\* domain is whitelisted, analyze_email returns "Safe Email", "99%" and
\* the list of the whitelisted domains, whatever keywords the text holds,
\* and runs no embedding.
C1_WhitelistShortCircuit ==
  (/\ Called
   /\ LastText # ""
   /\ LastUrls # <<>>
   /\ \A i \in 1..Len(LastDomains) : LastDomains[i] \in SAFE_DOMAINS)
  => /\ stage = "safe"
     /\ ~ret.raised
     /\ ret.label = "Safe Email"
     /\ ret.confidence = "99%"
     /\ ret.explanation = "All domains are whitelisted: " \o Join(", ", LastDomains)
     /\ calls = <<>>

\* A whitelisted message full of suspicious keywords was declared safe.
C1_Witness ==
  /\ stage = "safe"
  /\ ret.label = "Safe Email"
  /\ Len(LastHits) >= 3
  /\ Len(LastUrls) = 2

\* C2: in the fusion the label is Phishing iff there are keyword hits and
\* the score is above 0.4, otherwise Suspicious iff there are hits or the
\* score is above 0.6, otherwise Legitimate; hits with a score of exactly
\* 0.4 are not Phishing and no hits with exactly 0.6 is Legitimate.
C2_FusionThresholds ==
  stage = "fused" =>
    /\ ret.label = IF hits # <<>> /\ FGreater(cosine_score, Literal(40, 100))
                   THEN "Phishing Email"
                   ELSE IF hits # <<>> \/ FGreater(cosine_score, Literal(60, 100))
                   THEN "Suspicious Email"
                   ELSE "Legitimate Email"
    /\ (hits # <<>> /\ cosine_score = Literal(40, 100)) => ret.label = "Suspicious Email"
    /\ (hits = <<>> /\ cosine_score = Literal(60, 100)) => ret.label = "Legitimate Email"

\* Keyword hits with a score of exactly 0.4 gave Suspicious.
C2_Witness ==
  /\ stage = "fused"
  /\ hits # <<>>
  /\ cosine_score = Literal(40, 100)
  /\ ret.label = "Suspicious Email"

\* C3: every returned confidence is an integer percentage from 0% to 100%.
C3_ConfidenceInRange ==
  (Called /\ ~ret.raised) => ret.confidence \in {Percent(n) : n \in 0..100}

\* C4: with a URL present and some resolved domain not whitelisted the
\* call goes on to the fusion: the verdict is the fused one, never the
\* "Safe Email" short circuit, and the explanation names the
\* non-whitelisted domains and ends with the similarity score line.
C4_NonWhitelistedContinues ==
  (/\ Called
   /\ LastText # ""
   /\ LastUrls # <<>>
   /\ \E i \in 1..Len(LastDomains) : LastDomains[i] \notin SAFE_DOMAINS)
  => /\ stage = "fused"
     /\ ~ret.raised
     /\ ret.label \in FusionLabels
     /\ ~(ret.label = "Safe Email" /\ ret.confidence = "99%")
     /\ ret.label = FusionTable[LastHits # <<>>, cosine_score].label
     /\ ret.confidence = FusionTable[LastHits # <<>>, cosine_score].confidence
     /\ Contains(ret.explanation,
                 "\nNon-whitelisted domains: "
                 \o Join(", ", SelectSeq(LastDomains, LAMBDA d : d \notin SAFE_DOMAINS)) \o "\n")
     /\ EndsWith(ret.explanation, "\nSemantic similarity score: " \o Fmt2Table[cosine_score])

\* A message with one whitelisted and one non-whitelisted domain was fused.
C4_Witness ==
  /\ stage = "fused"
  /\ \E i \in 1..Len(LastDomains) : LastDomains[i] \in SAFE_DOMAINS
  /\ \E i \in 1..Len(LastDomains) : LastDomains[i] \notin SAFE_DOMAINS

\* What one lookup of key must make of the cache: a cached key is moved to
\* the most recently used end; a key that is not cached is stored at that
\* end with its embedding, the least recently used entry making room in a
\* full cache; nothing is stored when the model raises.
LruLookup(before, key, after) ==
  IF key \in CacheKeys(before)
  THEN after = SelectSeq(before, LAMBDA e : e.key # key)
               \o SelectSeq(before, LAMBDA e : e.key = key)
  ELSE IF key \in faults.encode
  THEN after = before
  ELSE after = Append(IF Len(before) = maxsize THEN Tail(before) ELSE before,
                      [key |-> key, value |-> Embedding(key)])

\* The cache holds at most maxsize entries, one per text.
CacheBounded ==
  /\ Len(cache) <= maxsize
  /\ \A i, j \in 1..Len(cache) : cache[i].key = cache[j].key => i = j

\* The lookups of the step that produced the primed state follow LruLookup,
\* and the model was run on exactly the texts that were not cached.
LruStep ==
  IF stage' # "fused"
  THEN cache' = cache /\ calls' = <<>>
  ELSE LET k1   == TextTable[ret'.email]
           us   == UrlTable[ret'.email]
           k2   == IF us # <<>> THEN Join(" ", us) ELSE k1
           ran1 == k1 \notin CacheKeys(cache)
           ran2 == k2 \notin CacheKeys(mid')
       IN  /\ LruLookup(cache, k1, mid')
           /\ IF k1 \in faults.encode
              THEN cache' = mid' /\ calls' = <<k1>>
              ELSE /\ LruLookup(mid', k2, cache')
                   /\ calls' = (IF ran1 THEN <<k1>> ELSE <<>>) \o (IF ran2 THEN <<k2>> ELSE <<>>)

\* C5: the embedding cache never holds more than its capacity of distinct
\* texts and is least-recently-used: a hit returns the stored embedding
\* without running the model and renews the entry, a miss on a full cache
\* evicts the least recently used text, and a text that was evicted is
\* computed afresh when it is scored again.
C5_LruCache == [](CacheBounded) /\ [][LruStep]_vars

\* A full cache, and a text the call before had evicted was encoded afresh.
C5_Witness ==
  /\ Len(cache) = maxsize
  /\ refetched # {}

\* C6: when tldextract raises or finds no domain/suffix pair,
\* get_registered_domain returns the lowercased URL, never the empty string.
C6_FallbackToUrl ==
  Called =>
    \A i \in 1..Len(LastUrls) :
      LET u   == LastUrls[i]
          ext == tld_extract(u)
      IN  (ext.raised \/ ext.domain = "" \/ ext.suffix = "")
          => /\ get_registered_domain(u) = [raised |-> FALSE, value |-> Lower(u)]
             /\ get_registered_domain(u).value # ""

\* C7: when the embedding model or cos_sim fails, analyze_email raises
\* nothing: the score is 0.0, the verdict is the fusion of the keyword hits
\* with 0.0, the explanation ends with the score line, and no text the
\* model failed on is left in the cache.
C7_EmbeddingFailureHandled ==
  (/\ Called
   /\ stage # "empty"
   /\ stage # "safe"
   /\ (faults.cos \/ LastKey1 \in faults.encode \/ LastKey2 \in faults.encode))
  => /\ stage = "fused"
     /\ failed
     /\ ~ret.raised
     /\ cosine_score = FZero
     /\ ret.label = (IF LastHits # <<>> THEN "Suspicious Email" ELSE "Legitimate Email")
     /\ ret.confidence = (IF LastHits # <<>> THEN "60%" ELSE "100%")
     /\ EndsWith(ret.explanation, "\nSemantic similarity score: 0.00")
     /\ CacheKeys(cache) \cap faults.encode = {}

\* The first lookup succeeded, the second raised, and a verdict was returned.
C7_Witness ==
  /\ stage = "fused"
  /\ failed
  /\ Len(calls) = 2
  /\ calls[2] \in faults.encode
  /\ ret.label = "Suspicious Email"

\* The inputs that are no string, are empty, or normalize to the empty text.
EmptyInputs ==
  { [type |-> "NoneType", value |-> ""], [type |-> "int", value |-> "42"], Str(""),
    Str(" \n" \o VT \o NBSP), Str("<p>!?</p> @") }

EmptyReturn(email) ==
  [email |-> email, raised |-> FALSE, label |-> "No text provided.",
   confidence |-> "0%", explanation |-> "Please paste the email content."]

\* C8: an input that is not a string, is empty or normalizes to the empty
\* text gets the "No text provided." verdict with "0%", raises nothing,
\* runs no embedding and leaves the cache as it was.
C8_EmptyInput ==
  /\ []((Called /\ (ret.email \in EmptyInputs \/ LastText = ""))
        => (stage = "empty" /\ ret = EmptyReturn(ret.email) /\ calls = <<>>))
  /\ [][(ret'.email \in EmptyInputs \/ TextTable[ret'.email] = "") => cache' = cache]_vars

\* A message of tags and punctuation only was answered with a filled cache.
C8_Witness ==
  /\ stage = "empty"
  /\ ret = EmptyReturn(Str("<p>!?</p> @"))
  /\ Len(cache) = maxsize

\* C9: the verdict of a call is the verdict the same input gets from a
\* process whose cache is empty, whatever the cache held and whether the
\* lookups were hits or misses.
C9_Deterministic ==
  Called =>
    \A fresh \in {analyze(ret.email, <<>>)} :
    /\ ret.raised = fresh.raised
    /\ ret.label = fresh.label
    /\ ret.confidence = fresh.confidence
    /\ ret.explanation = fresh.explanation

\* A fused verdict both of whose lookups were cache hits on distinct texts.
C9_Witness ==
  /\ stage = "fused"
  /\ ~failed
  /\ calls = <<>>
  /\ LastKey1 # LastKey2

\* The scores within a hundredth of 1.0.
NearOne(score) ==
  FGreater(score, Literal(99, 100)) /\ FGreater(Literal(101, 100), score)

\* C10: a non-empty text without URL whose similarity computation succeeds
\* is compared with itself and scores 1.0 up to the rounding of the
\* single-precision arithmetic; it is never Legitimate: Suspicious without
\* keyword hits and Phishing with them, at "100%" when the score is at
\* least 1.0 and at "99%" when the rounding leaves it below 1.0; it is
\* Legitimate only when the computation fails (score 0.0) and there are no
\* hits.
C10_UrlLessSelfSimilarity ==
  (Called /\ LastText # "" /\ LastUrls = <<>>)
  => /\ stage = "fused"
     /\ IF faults.cos \/ LastText \in faults.encode
        THEN /\ cosine_score = FZero
             /\ ret.label = (IF LastHits = <<>> THEN "Legitimate Email" ELSE "Suspicious Email")
        ELSE /\ NearOne(cosine_score)
             /\ ret.confidence = (IF FCmp(cosine_score, FOne) >= 0 THEN "100%" ELSE "99%")
             /\ ret.label = (IF LastHits = <<>> THEN "Suspicious Email" ELSE "Phishing Email")

\* A URL-less message with a keyword, whose self-similarity the rounding
\* left below 1.0, was labelled Phishing at 99%.
C10_Witness ==
  /\ stage = "fused"
  /\ LastUrls = <<>>
  /\ LastHits # <<>>
  /\ FCmp(cosine_score, FOne) < 0
  /\ NearOne(cosine_score)
  /\ ret.label = "Phishing Email"
  /\ ret.confidence = "99%"

\* C10 as first stated: the self-similarity is exactly 1.0 and the
\* confidence "100%".
C10_SelfSimilarityExact ==
  (Called /\ LastText # "" /\ LastUrls = <<>>)
  => /\ stage = "fused"
     /\ IF faults.cos \/ LastText \in faults.encode
        THEN /\ cosine_score = FZero
             /\ ret.label = (IF LastHits = <<>> THEN "Legitimate Email" ELSE "Suspicious Email")
        ELSE /\ cosine_score = FOne
             /\ ret.confidence = "100%"
             /\ ret.label = (IF LastHits = <<>> THEN "Suspicious Email" ELSE "Phishing Email")
====
